---- MODULE Spec2Model ----
(***************************************************************************)
(* Wear-time detection (signals/imu/wear_detection.py), activity counts   *)
(* (signals/imu/activity_counts.py), windowing (signals/imu/imu.py) and    *)
(* questionnaire scale helpers (questionnaires/utils.py) of BioPsyKit.     *)
(*                                                                         *)
(* WearDetection.predict classifies every 60-minute sliding window of an   *)
(* acceleration recording as wear (1) or non-wear (0) and then applies     *)
(* _rescore_wear_detection three times; get_major_wear_block returns the   *)
(* longest run of wear windows of such a table.                            *)
(*                                                                         *)
(* Units.  Accelerations are integers in milli-g, so the thresholds 0.013  *)
(* and 0.15 are 13 and 150.  A standard deviation is kept as the fraction  *)
(* num/den of its square (a square root is never taken; every comparison   *)
(* of a standard deviation is made on the squares).  Block durations are   *)
(* kept in quarter hours (len * 0.25 h is len quarter hours), so 3 h is 12 *)
(* and 6 h is 24, and a ratio a/b < 0.8 is 5a < 4b, a/b < 0.3 is 10a < 3b. *)
(* Timestamps are sample positions of the recording's index.               *)
(***************************************************************************)
EXTENDS Integers, Sequences, FiniteSets

VARIABLES
    pc,           \* position of the caller: predict's steps, then get_major_wear_block
    acc_sliding,  \* predict: per window, per axis, the windowed samples
    pad,          \* number of padded positions at the end of the last window
    wear,         \* predict: the table (column name -> column)
    passes,       \* number of rescoring passes applied so far
    hist,         \* wear column after classification and after each pass
    result,       \* outcome of get_major_wear_block
    ac,           \* ActivityCounts.calculate: the call, its input and its outcome
    sw,           \* sliding_window / get_windows: the call, its input and its outcome
    qs            \* questionnaires.utils: the call, the caller's data and the outcome

vars == <<pc, acc_sliding, pad, wear, passes, hist, result, ac, sw, qs>>

----------------------------------------------------------------------------
(* Bounds of the model *)

SamplesPerMin == 4     \* sampling rate of the modelled recordings, per minute
MaxPad == 1            \* largest padding of the last window, in samples
MaxBlocks == 6         \* most blocks of a recording built from short blocks
MaxTrailing == 14      \* longest trailing block of the recordings 4, 1, 1, t

(* Program constants *)

window == 60           \* min
overlap == 15          \* min
StdThreshold == 13     \* 0.013 g
RangeThreshold == 150  \* 0.15 g
NumPassesTwo == 3 - 1
NumPasses == 3

WindowSamples == window * SamplesPerMin
StepSamples == overlap * SamplesPerMin

Axes == {"acc_x", "acc_y", "acc_z"}

----------------------------------------------------------------------------
(* Signals: the samples of one axis in one window, run-length encoded as a *)
(* sequence of <<value, count>>.  NaN is the fill value of the padding and *)
(* of missing samples.                                                     *)

NaN == -1000000

RECURSIVE NanCount(_)
NanCount(sig) ==
    IF sig = <<>> THEN 0
    ELSE (IF Head(sig)[1] = NaN THEN 0 ELSE Head(sig)[2]) + NanCount(Tail(sig))

RECURSIVE NanSumSamples(_)
NanSumSamples(sig) ==
    IF sig = <<>> THEN 0
    ELSE (IF Head(sig)[1] = NaN THEN 0 ELSE Head(sig)[1] * Head(sig)[2])
         + NanSumSamples(Tail(sig))

RECURSIVE NanSumSquares(_)
NanSumSquares(sig) ==
    IF sig = <<>> THEN 0
    ELSE (IF Head(sig)[1] = NaN THEN 0 ELSE Head(sig)[1] * Head(sig)[1] * Head(sig)[2])
         + NanSumSquares(Tail(sig))

Values(sig) == {sig[i][1] : i \in {j \in DOMAIN sig : sig[j][2] > 0}} \ {NaN}

SetMax(S) == CHOOSE x \in S : \A y \in S : y <= x
SetMin(S) == CHOOSE x \in S : \A y \in S : x <= y

\* np.nanmax / np.nanmin: NaN for a window without a sample
NanMax(sig) == IF Values(sig) = {} THEN NaN ELSE SetMax(Values(sig))
NanMin(sig) == IF Values(sig) = {} THEN NaN ELSE SetMin(Values(sig))

\* np.nanstd(ddof=1), squared: sum((x - mean)^2) / (n - 1) as a fraction;
\* den = 0 (fewer than two samples) is NaN
NanStd(sig) ==
    LET n == NanCount(sig)
    IN  [num |-> n * NanSumSquares(sig) - NanSumSamples(sig) * NanSumSamples(sig),
         den |-> n * (n - 1)]

StdIsNaN(s) == s.den = 0
StdGE(s, t) == s.den # 0 /\ s.num >= t * t * s.den
StdLT(s, t) == s.den # 0 /\ s.num < t * t * s.den
StdGT(s, t) == s.den # 0 /\ s.num > t * t * s.den

\* a - b of two floats: NaN when either is
Minus(a, b) == IF a = NaN \/ b = NaN THEN NaN ELSE a - b
GE(a, t) == a # NaN /\ a >= t
LT(a, t) == a # NaN /\ a < t

RECURSIVE NanSum(_, _)
\* np.nansum over the axes S of the row f: NaN counts as zero
NanSum(f, S) ==
    IF S = {} THEN 0
    ELSE LET a == CHOOSE x \in S : TRUE
         IN  (IF f[a] = NaN THEN 0 ELSE f[a]) + NanSum(f, S \ {a})

----------------------------------------------------------------------------
(* Initial classification of one window (predict, lines 67-88) *)

AccStd(win) == [axis \in Axes |-> NanStd(win[axis])]

StdFlagsStrict(win) ==
    [axis \in Axes |->
        IF StdGT(AccStd(win)[axis], StdThreshold) THEN 1
        ELSE IF StdIsNaN(AccStd(win)[axis]) THEN NaN
        ELSE 0]

\* acc_std[acc_std >= 0.013] = 1; acc_std[acc_std < 0.013] = 0
StdFlags(win) ==
    [axis \in Axes |->
        IF StdGE(AccStd(win)[axis], StdThreshold) THEN 1
        ELSE IF StdLT(AccStd(win)[axis], StdThreshold) THEN 0
        ELSE NaN]

AccRange(win) == [axis \in Axes |-> Minus(NanMax(win[axis]), NanMin(win[axis]))]

\* acc_range[acc_range >= 0.15] = 1; acc_range[acc_range < 0.15] = 0
RangeFlags(win) ==
    [axis \in Axes |->
        IF GE(AccRange(win)[axis], RangeThreshold) THEN 1
        ELSE IF LT(AccRange(win)[axis], RangeThreshold) THEN 0
        ELSE NaN]

WearOfWindowEither(win) ==
    IF NanSum(StdFlags(win), Axes) < 1 /\ NanSum(RangeFlags(win), Axes) < 1
    THEN 0 ELSE 1

\* wear = ones; wear[logical_or(acc_std < 1.0, acc_range < 1.0)] = 0.0
WearOfWindow(win) ==
    IF NanSum(StdFlags(win), Axes) < 1 \/ NanSum(RangeFlags(win), Axes) < 1
    THEN 0 ELSE 1

----------------------------------------------------------------------------
(* Tables: a table is a function from column names to columns, a column a  *)
(* sequence with one entry per row.                                        *)

NumRows(data) == Len(data["wear"])

WithColumn(data, name, col) ==
    [c \in DOMAIN data \cup {name} |-> IF c = name THEN col ELSE data[c]]

DropColumn(data, name) == [c \in DOMAIN data \ {name} |-> data[c]]

\* data["wear"].diff().ne(0): the first difference is NaN, which is not 0
DiffNe(col) == {k \in DOMAIN col : k = 1 \/ col[k] # col[k - 1]}

\* data["wear"].diff().ne(0).cumsum(): the number of changes up to each row
BlockColumn(col) ==
    LET ne == DiffNe(col)
    IN  [k \in DOMAIN col |-> Cardinality({j \in ne : j <= k})]

\* the rows of one group, in table order
RowsOf(data, idx) == {k \in 1..NumRows(data) : data["block"][k] = idx}

\* list(data.groupby("block")): one (idx, group) per block id, ascending;
\* a group holds copies of its rows (the rows of a block id are adjacent)
Group(data, idx) ==
    LET rows == RowsOf(data, idx)
        first == CHOOSE k \in rows : k - 1 \notin rows
        n == Cardinality(rows)
    IN  [idx |-> idx,
         rows |-> [c \in DOMAIN data |-> [j \in 1..n |-> data[c][first + j - 1]]]]

GroupBy(data) ==
    LET ids == {data["block"][k] : k \in 1..NumRows(data)}
    IN  [i \in 1..Cardinality(ids) |-> Group(data, i)]

\* curr["wear"].unique() used as a condition: true for the one value 1
IsWear(group) == {group.rows["wear"][j] : j \in DOMAIN group.rows["wear"]} = {1}

\* len(dur) * 0.25, in quarter hours
Dur(group) == Len(group.rows["wear"])

SetNonWearFirst(data, idx) ==
    [data EXCEPT !["wear"] =
        [k \in DOMAIN data["wear"] |->
            IF data["block"][k] = idx /\ (k = 1 \/ data["block"][k - 1] # idx)
            THEN 0 ELSE data["wear"][k]]]

\* data.loc[data["block"] == idx, "wear"] = 0
SetNonWear(data, idx) ==
    [data EXCEPT !["wear"] =
        [k \in DOMAIN data["wear"] |->
            IF data["block"][k] = idx THEN 0 ELSE data["wear"][k]]]

ShortRuleInclusive(dur_prev, dur_curr, dur_post) ==
    dur_curr <= 12 /\ 5 * dur_curr < 4 * (dur_prev + dur_post)

ShortRulePrevOnly(dur_prev, dur_curr, dur_post) ==
    dur_curr < 12 /\ 5 * dur_curr < 4 * dur_prev

\* dur_curr < 3 and dur_curr / (dur_prev + dur_post) < 0.8
ShortRule(dur_prev, dur_curr, dur_post) ==
    dur_curr < 12 /\ 5 * dur_curr < 4 * (dur_prev + dur_post)

LongRuleInclusive(dur_prev, dur_curr, dur_post) ==
    dur_curr <= 24 /\ 10 * dur_curr < 3 * (dur_prev + dur_post)

\* dur_curr < 6 and dur_curr / (dur_prev + dur_post) < 0.3
LongRule(dur_prev, dur_curr, dur_post) ==
    dur_curr < 24 /\ 10 * dur_curr < 3 * (dur_prev + dur_post)

RescoreBlockSymmetric(data, prev, curr, post) ==
    IF ShortRule(Dur(prev), Dur(curr), Dur(post))
          \/ LongRule(Dur(prev), Dur(curr), Dur(post))
    THEN [data EXCEPT !["wear"] =
            [k \in DOMAIN data["wear"] |->
                IF data["block"][k] = curr.idx THEN 1 - data["wear"][k]
                ELSE data["wear"][k]]]
    ELSE data

\* the body of the loop over (prev, curr, post)
RescoreBlock(data, prev, curr, post) ==
    IF IsWear(curr)
    THEN IF ShortRule(Dur(prev), Dur(curr), Dur(post))
         THEN SetNonWear(data, curr.idx)
         ELSE IF LongRule(Dur(prev), Dur(curr), Dur(post))
              THEN SetNonWear(data, curr.idx)
              ELSE data
    ELSE data

NoGroup == [idx |-> 0, rows |-> [c \in {"wear"} |-> <<>>]]

RECURSIVE RescoreLoopEdges(_, _, _)
RescoreLoopEdges(data, blocks, i) ==
    IF i > Len(blocks) THEN data
    ELSE RescoreLoopEdges(
             RescoreBlock(data,
                          IF i = 1 THEN NoGroup ELSE blocks[i - 1],
                          blocks[i],
                          IF i = Len(blocks) THEN NoGroup ELSE blocks[i + 1]),
             blocks, i + 1)

RECURSIVE RescoreLoopLive(_, _, _)
RescoreLoopLive(data, blocks, i) ==
    IF i > Len(blocks) - 2 THEN data
    ELSE LET next == RescoreBlock(data, blocks[i], blocks[i + 1], blocks[i + 2])
             regrouped == WithColumn(next, "block", BlockColumn(next["wear"]))
         IN  IF next = data THEN RescoreLoopLive(data, blocks, i + 1)
             ELSE RescoreLoopLive(regrouped, GroupBy(regrouped), i)

RECURSIVE RescoreLoop(_, _, _)
\* for prev, curr, post in zip(blocks[0:-2], blocks[1:-1], blocks[2:])
RescoreLoop(data, blocks, i) ==
    IF i > Len(blocks) - 2 THEN data
    ELSE RescoreLoop(RescoreBlock(data, blocks[i], blocks[i + 1], blocks[i + 2]),
                     blocks, i + 1)

RescoreWearDetectionKeepBlock(data) ==
    LET grouped == WithColumn(data, "block", BlockColumn(data["wear"]))
        blocks == GroupBy(grouped)
    IN  RescoreLoop(grouped, blocks, 1)

RescoreWearDetection(data) ==
    LET grouped == WithColumn(data, "block", BlockColumn(data["wear"]))
        blocks == GroupBy(grouped)
    IN  DropColumn(RescoreLoop(grouped, blocks, 1), "block")

----------------------------------------------------------------------------
(* get_major_wear_block (lines 128-139) *)

AllWear(group) == \A j \in DOMAIN group.rows["wear"] : group.rows["wear"][j] = 1

ArgMaxLast(lens) ==
    CHOOSE i \in DOMAIN lens :
        /\ \A j \in DOMAIN lens : lens[j] <= lens[i]
        /\ \A j \in DOMAIN lens : j > i => lens[j] < lens[i]

\* np.argmax: the first position of the largest value
ArgMax(lens) ==
    CHOOSE i \in DOMAIN lens :
        /\ \A j \in DOMAIN lens : lens[j] <= lens[i]
        /\ \A j \in DOMAIN lens : j < i => lens[j] < lens[i]

NoResult == [kind |-> "none", exc |-> "", value |-> <<>>]

GetMajorWearBlock(wear_data) ==
    LET data == WithColumn(wear_data, "block", BlockColumn(wear_data["wear"]))
        wear_blocks == SelectSeq(GroupBy(data), AllWear)
        lens == [i \in DOMAIN wear_blocks |-> Len(wear_blocks[i].rows["wear"])]
    IN  IF wear_blocks = <<>>
        THEN \* np.argmax([]) raises ValueError
             [kind |-> "raise", exc |-> "ValueError", value |-> <<>>]
        ELSE LET max_block == wear_blocks[ArgMax(lens)].rows
             IN  [kind |-> "return", exc |-> "",
                  value |-> <<max_block["start"][1],
                              max_block["end"][Len(max_block["end"])]>>]

----------------------------------------------------------------------------
(* The recordings the model is run on *)

\* every sample 0
Flat == << <<0, WindowSamples>> >>
\* three samples 0, 13, 26, the others missing: std exactly 0.013, range 0.026
Tie == << <<0, 1>>, <<StdThreshold, 1>>, <<2 * StdThreshold, 1>>,
          <<NaN, WindowSamples - 3>> >>
\* one sample of 0.15 in a flat window: range exactly 0.15, std below 0.013
Spike == << <<0, WindowSamples - 1>>, <<RangeThreshold, 1>> >>
\* one sample of 0.149 in a flat window: both below
NearSpike == << <<0, WindowSamples - 1>>, <<RangeThreshold - 1, 1>> >>
\* a single sample: std is NaN, range 0
Lone == << <<5, 1>>, <<NaN, WindowSamples - 1>> >>
\* no sample at all: std and range are NaN
Missing == << <<NaN, WindowSamples>> >>
\* half the window at 0, half at 0.16: both above
Shake == << <<0, WindowSamples \div 2>>, <<160, WindowSamples - WindowSamples \div 2>> >>

\* three samples 0, 20, 40, the others missing: std 0.02, range 0.04
Tremor == << <<0, 1>>, <<20, 1>>, <<40, 1>>, <<NaN, WindowSamples - 3>> >>

AxisSignals == {Flat, Tie, Tremor, Spike, NearSpike, Lone, Missing, Shake}

StillWindow == [axis \in Axes |-> Flat]
MovingWindow == [axis \in Axes |-> IF axis = "acc_x" THEN Shake ELSE Flat]

SmallLens == {1, 2, 3}
BigLens == {1, 4, 11, 12, 13, 23, 24, 28, 77}

Repeat(x, n) == [i \in 1..n |-> x]

RECURSIVE FromBlocks(_, _)
\* a recording of blocks of the lengths lens, the first of label first,
\* the labels alternating
FromBlocks(first, lens) ==
    IF lens = <<>> THEN <<>>
    ELSE Repeat(IF first = 1 THEN MovingWindow ELSE StillWindow, Head(lens))
         \o FromBlocks(1 - first, Tail(lens))

\* wear blocks of 1, 2, 5 and 10 windows between single non-wear windows:
\* each of them can go only after the one before it has gone
Cascades ==
    {<<1, 1, 1, 2, 1, 1>>,
     <<1, 1, 1, 2, 1, 5, 1, 1>>,
     <<1, 1, 1, 2, 1, 5, 1, 10, 1, 1>>}

BlockLengths ==
    UNION {[1..n -> SmallLens] : n \in 1..MaxBlocks}
    \cup Cascades
    \cup [1..3 -> BigLens]
    \cup {<<4, 1, 1, t>> : t \in 1..MaxTrailing}

Recordings ==
    {<<w>> : w \in [Axes -> AxisSignals]}
    \cup {FromBlocks(first, lens) : first \in {0, 1}, lens \in BlockLengths}

RECURSIVE DropTail(_, _)
DropTail(sig, m) ==
    IF m = 0 \/ sig = <<>> THEN sig
    ELSE LET last == sig[Len(sig)]
             init == SubSeq(sig, 1, Len(sig) - 1)
         IN  IF last[2] > m THEN Append(init, <<last[1], last[2] - m>>)
             ELSE DropTail(init, m - last[2])

\* the last window of a recording whose length leaves p positions of the
\* window unfilled: the positions hold the fill value
PadTail(rec, p) ==
    [k \in DOMAIN rec |->
        IF k = Len(rec) /\ p > 0
        THEN [axis \in Axes |-> Append(DropTail(rec[k][axis], p), <<NaN, p>>)]
        ELSE rec[k]]

----------------------------------------------------------------------------
(* predict *)

\* start_end = index_resample[:, [0, -1]], the NaN of the last row replaced
\* by the last position that is not NaN (lines 41-55); window k begins
\* (k - 1) steps into the recording
StartColumn(n) == [k \in 1..n |-> (k - 1) * StepSamples]
EndColumn(n, p) ==
    [k \in 1..n |->
        IF k = n THEN (k - 1) * StepSamples + WindowSamples - 1 - p
        ELSE (k - 1) * StepSamples + WindowSamples - 1]

\* a component that is not called in the run
Idle == [pc |-> "idle"]

Init ==
    /\ pc = "classify"
    /\ ac = Idle /\ sw = Idle /\ qs = Idle
    /\ pad \in 0..MaxPad
    /\ \E rec \in Recordings : acc_sliding = PadTail(rec, pad)
    /\ wear = [c \in {} |-> <<>>]
    /\ passes = 0
    /\ hist = <<>>
    /\ result = NoResult

\* lines 67-92
Classify ==
    /\ pc = "classify"
    /\ wear' = [c \in {"wear", "start", "end"} |->
                  IF c = "wear"
                  THEN [k \in DOMAIN acc_sliding |-> WearOfWindow(acc_sliding[k])]
                  ELSE IF c = "start" THEN StartColumn(Len(acc_sliding))
                  ELSE EndColumn(Len(acc_sliding), pad)]
    /\ hist' = <<wear'["wear"]>>
    /\ pc' = "rescore"
    /\ UNCHANGED <<acc_sliding, pad, passes, result, ac, sw, qs>>

\* lines 94-99: wear = self._rescore_wear_detection(wear), three times
Rescore ==
    /\ pc = "rescore"
    /\ passes < NumPasses
    /\ wear' = RescoreWearDetection(wear)
    /\ passes' = passes + 1
    /\ hist' = Append(hist, wear'["wear"])
    /\ pc' = IF passes + 1 = NumPasses THEN "done" ELSE "rescore"
    /\ UNCHANGED <<acc_sliding, pad, result, ac, sw, qs>>

CallerTableNoCopy(wear_data) ==
    WithColumn(wear_data, "block", BlockColumn(wear_data["wear"]))

\* wear_data = wear_data.copy(): the block column of line 131 is added to the
\* copy, the table of the caller is as it was
CallerTable(wear_data) == wear_data

\* get_major_wear_block on the table predict returned
MajorWearBlock ==
    /\ pc = "done"
    /\ result' = GetMajorWearBlock(wear)
    /\ wear' = CallerTable(wear)
    /\ pc' = IF result'.kind = "return" THEN "returned" ELSE "raised"
    /\ UNCHANGED <<acc_sliding, pad, passes, hist, ac, sw, qs>>

Next == Classify \/ Rescore \/ MajorWearBlock

Spec == Init /\ [][Next]_vars

----------------------------------------------------------------------------
(* Properties *)

Classified == pc # "classify"
Finished == pc \in {"done", "returned", "raised"}

\* number of axes of the window whose std / range reaches the threshold
HighStdAxes(win) == {a \in Axes : StdGE(NanStd(win[a]), StdThreshold)}
HighRangeAxes(win) ==
    {a \in Axes : GE(Minus(NanMax(win[a]), NanMin(win[a])), RangeThreshold)}

\* C1: after the initial classification every window is labeled wear (1)
\* if and only if at least one axis has std >= 0.013 and at least one axis
\* has range >= 0.15 (equality counts as high), and non-wear (0) otherwise;
\* the two axes need not be the same.
C1_InitialClassification ==
    Classified =>
        \A k \in DOMAIN acc_sliding :
            /\ hist[1][k] \in {0, 1}
            /\ hist[1][k] = 1 <=>
                  (Cardinality(HighStdAxes(acc_sliding[k])) >= 1
                   /\ Cardinality(HighRangeAxes(acc_sliding[k])) >= 1)

\* a window labeled wear whose only high-std axis has std exactly 0.013 and
\* range below 0.15, and whose only high-range axis has range exactly 0.15
\* and std below 0.013
C1_Witness ==
    /\ Classified
    /\ \E k \in DOMAIN acc_sliding :
          /\ hist[1][k] = 1
          /\ \E a, b \in Axes :
                /\ a # b
                /\ HighStdAxes(acc_sliding[k]) = {a}
                /\ HighRangeAxes(acc_sliding[k]) = {b}
                /\ acc_sliding[k][a] = Tie
                /\ acc_sliding[k][b] = Spike

ExceedsStd(win) == \E a \in Axes : StdGT(NanStd(win[a]), StdThreshold)
ExceedsRange(win) ==
    \E a \in Axes :
        /\ Minus(NanMax(win[a]), NanMin(win[a])) # NaN
        /\ Minus(NanMax(win[a]), NanMin(win[a])) > RangeThreshold
AllBelow(win) ==
    \A a \in Axes :
        /\ StdLT(NanStd(win[a]), StdThreshold)
        /\ LT(Minus(NanMax(win[a]), NanMin(win[a])), RangeThreshold)

\* C2 as stated: a window with std and range below the thresholds on all
\* axes is non-wear, and a window in which any axis exceeds either the std
\* or the range threshold is wear.
C2_EitherThreshold ==
    Classified =>
        \A k \in DOMAIN acc_sliding :
            /\ AllBelow(acc_sliding[k]) => hist[1][k] = 0
            /\ (ExceedsStd(acc_sliding[k]) \/ ExceedsRange(acc_sliding[k]))
                  => hist[1][k] = 1

\* C2 (amended): a window with std and range below the thresholds on all
\* axes is non-wear; a window in which some axis reaches the std threshold
\* and some axis reaches the range threshold is wear; a window in which no
\* axis reaches one of the two thresholds is non-wear even when the other
\* threshold is exceeded.
C2_BothThresholds ==
    Classified =>
        \A k \in DOMAIN acc_sliding :
            /\ AllBelow(acc_sliding[k]) => hist[1][k] = 0
            /\ (HighStdAxes(acc_sliding[k]) # {} /\ HighRangeAxes(acc_sliding[k]) # {})
                  => hist[1][k] = 1
            /\ (HighStdAxes(acc_sliding[k]) = {} \/ HighRangeAxes(acc_sliding[k]) = {})
                  => hist[1][k] = 0

\* a window labeled non-wear although an axis exceeds the std threshold
C2_Witness ==
    /\ Classified
    /\ \E k \in DOMAIN acc_sliding :
          /\ ExceedsStd(acc_sliding[k])
          /\ HighRangeAxes(acc_sliding[k]) = {}
          /\ hist[1][k] = 0

----------------------------------------------------------------------------
(* Blocks of a labeling, described by their first and last row *)

RunStarts(col) == {a \in DOMAIN col : a = 1 \/ col[a] # col[a - 1]}
RunEnds(col) == {b \in DOMAIN col : b = Len(col) \/ col[b + 1] # col[b]}
RunEnd(col, a) == LET ends == {b \in RunEnds(col) : b >= a}
                  IN  CHOOSE b \in ends : \A c \in ends : b <= c
RunStart(col, b) == LET starts == {a \in RunStarts(col) : a <= b}
                    IN  CHOOSE a \in starts : \A c \in starts : c <= a
Runs(col) == {<<a, RunEnd(col, a)>> : a \in RunStarts(col)}
RunLen(run) == run[2] - run[1] + 1
Interior(col, run) == run[1] > 1 /\ run[2] < Len(col)
WearRuns(col) == {run \in Runs(col) : col[run[1]] = 1}
PrevLen(col, run) == run[1] - RunStart(col, run[1] - 1)
NextLen(col, run) == RunEnd(col, run[2] + 1) - run[2]

\* the rule of the specification on durations d, p, n in quarter hours:
\* (d < 3 h and d/(p+n) < 0.8) or (d < 6 h and d/(p+n) < 0.3)
RelabelRule(d, p, n) ==
    \/ d < 12 /\ 5 * d < 4 * (p + n)
    \/ d < 24 /\ 10 * d < 3 * (p + n)

\* the labelings before and after the most recent pass
Before == hist[Len(hist) - 1]
After == hist[Len(hist)]
PassDone == Len(hist) >= 2

\* C3: in every pass, an interior block labeled wear, of duration d with
\* neighbours of durations p and n, is relabeled non-wear as a whole if and
\* only if (d < 3 h and d/(p+n) < 0.8) or (d < 6 h and d/(p+n) < 0.3), all
\* comparisons strict; otherwise it stays wear as a whole.
C3_RescoringRule ==
    PassDone =>
        \A run \in WearRuns(Before) :
            Interior(Before, run) =>
                LET rule == RelabelRule(RunLen(run), PrevLen(Before, run),
                                        NextLen(Before, run))
                IN  /\ rule <=> \A k \in run[1]..run[2] : After[k] = 0
                    /\ ~rule => \A k \in run[1]..run[2] : After[k] = 1

\* a pass met an interior wear block of exactly 3 h whose ratio lies in
\* [0.3, 0.8) and kept it
C3_Witness ==
    /\ PassDone
    /\ \E run \in WearRuns(Before) :
          /\ Interior(Before, run)
          /\ RunLen(run) = 12
          /\ 5 * 12 < 4 * (PrevLen(Before, run) + NextLen(Before, run))
          /\ 10 * 12 >= 3 * (PrevLen(Before, run) + NextLen(Before, run))
          /\ \A k \in run[1]..run[2] : After[k] = 1

\* the other boundary cases of C3: ratio exactly 0.8, ratio exactly 0.3 on a
\* 3 h block, a 6 h block with a small ratio, and both rules firing
C3_RatioExactly08 ==
    /\ PassDone
    /\ \E run \in WearRuns(Before) :
          /\ Interior(Before, run)
          /\ 5 * RunLen(run) = 4 * (PrevLen(Before, run) + NextLen(Before, run))
          /\ After[run[1]] = 1
C3_RatioExactly03 ==
    /\ PassDone
    /\ \E run \in WearRuns(Before) :
          /\ Interior(Before, run)
          /\ RunLen(run) >= 12
          /\ 10 * RunLen(run) = 3 * (PrevLen(Before, run) + NextLen(Before, run))
          /\ After[run[1]] = 1
C3_SixHours ==
    /\ PassDone
    /\ \E run \in WearRuns(Before) :
          /\ Interior(Before, run)
          /\ RunLen(run) = 24
          /\ 10 * 24 < 3 * (PrevLen(Before, run) + NextLen(Before, run))
          /\ After[run[1]] = 1
C3_LongRuleFires ==
    /\ PassDone
    /\ \E run \in WearRuns(Before) :
          /\ Interior(Before, run)
          /\ RunLen(run) \in 12..23
          /\ After[run[1]] = 0
C3_ShortRuleFires ==
    /\ PassDone
    /\ \E run \in WearRuns(Before) :
          /\ Interior(Before, run)
          /\ RunLen(run) = 11
          /\ 10 * 11 >= 3 * (PrevLen(Before, run) + NextLen(Before, run))
          /\ After[run[1]] = 0

\* C4: no pass changes a window from non-wear to wear; after any number of
\* passes the wear windows are among the wear windows of the initial
\* classification, and a lone non-wear block between two wear blocks is
\* never changed.
C4_NoNonWearToWear ==
    /\ PassDone => \A k \in DOMAIN Before : Before[k] = 0 => After[k] = 0
    /\ Classified => \A k \in DOMAIN hist[1] : After[k] = 1 => hist[1][k] = 1

\* after the three passes, a lone non-wear window between two wear blocks is
\* still non-wear, in a recording in which the passes relabeled a wear block
C4_Witness ==
    /\ pc = "done"
    /\ hist[4] # hist[1]
    /\ \E k \in DOMAIN hist[1] :
          /\ k > 1 /\ k < Len(hist[1])
          /\ hist[1][k - 1] = 1 /\ hist[1][k] = 0 /\ hist[1][k + 1] = 1
          /\ hist[4][k] = 0

FirstRun(col) == <<1, RunEnd(col, 1)>>
LastRun(col) == <<RunStart(col, Len(col)), Len(col)>>

\* C5: in every pass the first and the last block of the grouping keep
\* their labels whatever their label and length, a labeling of fewer than
\* three blocks is returned unchanged, and the first and the last window
\* have the same label after the three passes as after the classification.
C5_FirstLastImmunity ==
    /\ PassDone =>
          /\ \A k \in FirstRun(Before)[1]..FirstRun(Before)[2] : After[k] = Before[k]
          /\ \A k \in LastRun(Before)[1]..LastRun(Before)[2] : After[k] = Before[k]
          /\ Cardinality(Runs(Before)) < 3 => After = Before
    /\ Finished =>
          /\ wear["wear"][1] = hist[1][1]
          /\ wear["wear"][Len(hist[1])] = hist[1][Len(hist[1])]

\* after the three passes the recording still begins with the one-window
\* wear block it began with, although an interior block of that length and
\* those neighbours would have been relabeled, and an interior block was
C5_Witness ==
    /\ pc = "done"
    /\ Cardinality(Runs(hist[1])) >= 3
    /\ hist[1][1] = 1
    /\ FirstRun(hist[1]) = <<1, 1>>
    /\ RelabelRule(1, 0, NextLen(hist[1], FirstRun(hist[1])))
    /\ wear["wear"][1] = 1
    /\ hist[4] # hist[1]

\* one pass described on the grouping of its input: every window of an
\* interior wear block that meets the rule becomes 0, every other window
\* keeps its label
PassOnSnapshot(col) ==
    LET relabeled == {run \in WearRuns(col) :
                         /\ Interior(col, run)
                         /\ RelabelRule(RunLen(run), PrevLen(col, run),
                                        NextLen(col, run))}
    IN  [k \in DOMAIN col |->
            IF \E run \in relabeled : run[1] <= k /\ k <= run[2]
            THEN 0 ELSE col[k]]

\* C6: predict applies exactly three passes in sequence, each on the labels
\* the previous one returned, and within a pass every block is decided on
\* the grouping taken at the start of the pass.
C6_ThreeSnapshotPasses ==
    /\ PassDone => After = PassOnSnapshot(Before)
    /\ Len(hist) = IF Classified THEN passes + 1 ELSE 0
    /\ passes <= NumPasses
    /\ Finished =>
          /\ passes = 3
          /\ wear["wear"] = PassOnSnapshot(PassOnSnapshot(PassOnSnapshot(hist[1])))

\* the second pass relabeled a wear block that the first pass had kept on
\* its own grouping and that lies next to a block merged by the first pass
C6_Witness ==
    /\ pc = "done"
    /\ \E run \in WearRuns(hist[1]) :
          /\ Interior(hist[1], run)
          /\ ~RelabelRule(RunLen(run), PrevLen(hist[1], run), NextLen(hist[1], run))
          /\ hist[2][run[1]] = 1
          /\ PrevLen(hist[2], run) > PrevLen(hist[1], run)
          /\ hist[3][run[1]] = 0

\* the labeling 4 wear, 1 non-wear, 1 wear, t non-wear
LoneWear(t) == [k \in 1..(6 + t) |-> IF k <= 4 \/ k = 6 THEN 1 ELSE 0]
LoneWearRescored(t) == [k \in 1..(6 + t) |-> IF k <= 4 THEN 1 ELSE 0]

\* C7: on 4 wear windows, one non-wear window, one lone wear window and a
\* trailing run of non-wear windows, one pass relabels the lone wear window
\* and changes no other window.
C7_LoneWearWindow ==
    PassDone =>
        \A t \in 1..(Len(Before) - 6) :
            Before = LoneWear(t) => After = LoneWearRescored(t)

\* the labeling of the specification's example, 20 windows, after one pass
C7_Witness ==
    /\ Len(hist) = 2
    /\ hist[1] = LoneWear(14)
    /\ hist[2][6] = 0
    /\ hist[2][1] = 1

HasWear(col) == \E k \in DOMAIN col : col[k] = 1
Called == pc \in {"returned", "raised"}

\* C9: on a table with a wear window get_major_wear_block returns (start of
\* the first window, end of the last window) of the longest maximal run of
\* wear windows, the first of them when several are longest; every window
\* of that run is labeled wear.
C9_MajorWearBlock ==
    (Called /\ HasWear(wear["wear"])) =>
        /\ result.kind = "return"
        /\ \E run \in WearRuns(wear["wear"]) :
              /\ result.value = <<wear["start"][run[1]], wear["end"][run[2]]>>
              /\ \A k \in run[1]..run[2] : wear["wear"][k] = 1
              /\ \A other \in WearRuns(wear["wear"]) :
                    /\ RunLen(other) <= RunLen(run)
                    /\ RunLen(other) = RunLen(run) => run[1] <= other[1]

\* the call returned on a table with two longest wear runs and a shorter one
C9_Witness ==
    /\ pc = "returned"
    /\ \E r1, r2, r3 \in WearRuns(wear["wear"]) :
          /\ r1[1] < r2[1]
          /\ RunLen(r1) = RunLen(r2)
          /\ RunLen(r3) < RunLen(r1)
          /\ \A other \in WearRuns(wear["wear"]) : RunLen(other) <= RunLen(r1)
          /\ result.value = <<wear["start"][r1[1]], wear["end"][r1[2]]>>

\* C10: on a table without a wear window get_major_wear_block fails with an
\* EmptyResultError and returns no (start, end) pair.
C10_EmptyResultError ==
    (Called /\ ~HasWear(wear["wear"])) =>
        /\ result.kind = "raise"
        /\ result.exc = "EmptyResultError"

----------------------------------------------------------------------------
(* ActivityCounts (signals/imu/activity_counts.py)                         *)
(*                                                                         *)
(* Accelerations are integers in micro-g (2.13 g is 2130000).  The filters *)
(* and the resampling are not computed: an input comes with the rectified  *)
(* 10 Hz signal the chain up to np.abs yields for it (rect), run-length    *)
(* encoded; the stages keep the length, the buffer and the order of the    *)
(* stages applied.  Times are in milliseconds.                             *)

MaxMinutes == 2        \* longest input, in minutes
MaxChannels == 4       \* most columns of an input
MaxCalls == 2          \* calls of calculate on the same input

upper_threshold == 2130000   \* g
lower_threshold == 68000     \* g
max_val == 2130000           \* g
n_samples == 10 * 60

Stage(name, from, to) == [stage |-> name, from |-> from, to |-> to]

\* data.copy(): a new buffer owned by the call
Copy(d) == [d EXCEPT !.buf = "copy"]

\* sanitize_input_nd: the samples as a 2-D array over the same buffer
SanitizeInputNd(d) == d

\* np.linalg.norm(data, axis=1)
ComputeNorm(d) ==
    [d EXCEPT !.channels = 1, !.buf = "temp",
              !.trace = Append(@, Stage("norm", 0, 0))]

\* signal.decimate(data, q) keeps every q-th sample; the interpolation
\* branch returns int(len / (sampling_rate / final_sampling_rate)) samples
DownsampleLen(len, sampling_rate, final_sampling_rate) ==
    IF sampling_rate % final_sampling_rate = 0
    THEN (len + (sampling_rate \div final_sampling_rate) - 1)
            \div (sampling_rate \div final_sampling_rate)
    ELSE (len * final_sampling_rate) \div sampling_rate

Downsample(d, sampling_rate, final_sampling_rate) ==
    [d EXCEPT !.len = DownsampleLen(d.len, sampling_rate, final_sampling_rate),
              !.buf = "temp",
              !.trace = Append(@, Stage("downsample", sampling_rate,
                                        final_sampling_rate))]

\* signal.butter(5, [0.01, 7], 'bp', fs=sampling_rate), sosfiltfilt
AliasingFilter(d, sampling_rate) ==
    [d EXCEPT !.buf = "temp",
              !.trace = Append(@, Stage("aliasing_filter", sampling_rate,
                                        sampling_rate))]

\* signal.filtfilt(b, a, data)
ActigraphFilter(d) ==
    [d EXCEPT !.buf = "temp", !.trace = Append(@, Stage("actigraph_filter", 0, 0))]

\* np.abs(data): from here on the samples are followed
Abs(d, rect) ==
    [d EXCEPT !.buf = "temp", !.sig = rect, !.trace = Append(@, Stage("abs", 0, 0))]

TruncateSampleToLower(x) ==
    IF x > upper_threshold THEN upper_threshold
    ELSE IF x < lower_threshold THEN lower_threshold
    ELSE x

\* data[data > upper_threshold] = upper_threshold; data[data < lower_threshold] = 0
TruncateSample(x) ==
    IF x > upper_threshold THEN upper_threshold
    ELSE IF x < lower_threshold THEN 0
    ELSE x

\* _truncate works in place on the buffer it is given
Truncate(d) ==
    [d EXCEPT !.sig = [i \in DOMAIN d.sig |-> <<TruncateSample(d.sig[i][1]), d.sig[i][2]>>],
              !.written = @ \cup {d.buf},
              !.trace = Append(@, Stage("truncate", 0, 0))]

DigitizeSample256(x) == (x * (2 ^ 8)) \div max_val

\* data //= max_val / (2 ** 7), for samples that are not negative
DigitizeSample(x) == (x * (2 ^ 7)) \div max_val

\* _digitize_8bit works in place on the buffer it is given
Digitize8bit(d) ==
    [d EXCEPT !.sig = [i \in DOMAIN d.sig |-> <<DigitizeSample(d.sig[i][1]), d.sig[i][2]>>],
              !.quantized = [i \in DOMAIN d.sig |-> <<DigitizeSample(d.sig[i][1]), d.sig[i][2]>>],
              !.written = @ \cup {d.buf},
              !.trace = Append(@, Stage("digitize_8bit", 0, 0))]

RECURSIVE SigLen(_)
SigLen(sig) == IF sig = <<>> THEN 0 ELSE Head(sig)[2] + SigLen(Tail(sig))

RECURSIVE SumBetween(_, _, _, _)
\* the sum of the samples at positions lo..hi of sig, whose first sample has
\* position first
SumBetween(sig, first, lo, hi) ==
    IF sig = <<>> THEN 0
    ELSE LET last == first + Head(sig)[2] - 1
             a == IF lo > first THEN lo ELSE first
             b == IF hi < last THEN hi ELSE last
         IN  (IF b >= a THEN Head(sig)[1] * (b - a + 1) ELSE 0)
             + SumBetween(Tail(sig), last + 1, lo, hi)

\* n_samples - len(data) % n_samples
PadLen(len) == n_samples - (len % n_samples)

\* np.pad(data, (0, pad)), reshape to rows of n_samples, mean of each row;
\* a mean is kept as the fraction num / den
AccumulateMinuteBins(d) ==
    LET padded_data == Append(d.sig, <<0, PadLen(SigLen(d.sig))>>)
        rows == SigLen(padded_data) \div n_samples
    IN  [d EXCEPT !.buf = "temp",
                  !.len = rows,
                  !.sig = [r \in 1..rows |->
                             [num |-> SumBetween(padded_data, 1,
                                                 (r - 1) * n_samples + 1,
                                                 r * n_samples),
                              den |-> n_samples]],
                  !.trace = Append(@, Stage("accumulate_minute_bins", 0, 0))]

\* (data.index * 60 + start_time).astype(int), unit='s': whole seconds,
\* here in milliseconds
OutputTime(i, start_ms) == ((((i - 1) * 60 * 1000) + start_ms) \div 1000) * 1000

PipelineFilterFirst(d, sampling_rate, rect) ==
    AccumulateMinuteBins(Digitize8bit(Truncate(Abs(
        Downsample(ActigraphFilter(Downsample(AliasingFilter(
            d, sampling_rate), sampling_rate, 30)), 30, 10), rect))))

\* lines 99-106
Pipeline(d, sampling_rate, rect) ==
    AccumulateMinuteBins(Digitize8bit(Truncate(Abs(
        Downsample(ActigraphFilter(AliasingFilter(Downsample(
            d, sampling_rate, 30), 30)), 30, 10), rect))))

ValidChannelsUpTo3(n) == n \in 1..3

\* data.shape[1] not in (1, 3) raises
ValidChannels(n) == n \in {1, 3}

\* calculate(data, sampling_rate) on the caller's input; lib_tz is the
\* module-level tz of biopsykit.utils
Calculate(input, rect, lib_tz) ==
    LET arg == [channels |-> input.channels, len |-> input.len, buf |-> "caller",
                sig |-> <<>>, quantized |-> <<>>, written |-> {}, trace |-> <<>>]
        data == SanitizeInputNd(Copy(arg))
    IN  IF ~ValidChannels(data.channels)
        THEN [kind |-> "raise", exc |-> "ValueError", dims |-> data.channels,
              counts |-> <<>>, quantized |-> <<>>, index |-> <<>>, index_tz |-> "none",
              trace |-> data.trace, written |-> data.written]
        ELSE LET out == Pipeline(IF data.channels # 1 THEN ComputeNorm(data) ELSE data,
                                 input.fs, rect)
             IN  [kind |-> "return", exc |-> "", dims |-> 0,
                  counts |-> out.sig, quantized |-> out.quantized,
                  index |-> IF input.indexed
                            THEN [i \in 1..out.len |-> OutputTime(i, input.start_ms)]
                            ELSE <<>>,
                  index_tz |-> IF input.indexed THEN lib_tz ELSE "none",
                  trace |-> out.trace, written |-> out.written]

(* The inputs *)

SamplingRates == {30, 60, 100}
Timezones == {"UTC", "Europe/Berlin"}
StartTimes == {0, 500, 1000, 59999}
RectValues == {0, 67999, 68000, 83203, 83204, 1065000, 2129999, 2130000,
               2130001, 2500000}

\* the 10 Hz length of an input of len samples at rate fs
TenHzLen(len, fs) == DownsampleLen(DownsampleLen(len, fs, 30), 30, 10)

RectSignals(L) ==
    {<< <<x, L>> >> : x \in RectValues}
    \cup {<< <<x, 1>>, <<y, L - 1>> >> : x \in {68000, 1065000, 2500000},
                                          y \in {0, 83204, 2129999}}

\* inputs of m minutes, one tenth of a second less, or one more
ACInputs ==
    {[channels |-> c, fs |-> fs, len |-> ((600 * m + d) * fs) \div 10,
      indexed |-> ix, start_ms |-> IF ix THEN t ELSE 0,
      tz |-> IF ix THEN z ELSE "none"] :
        c \in 0..MaxChannels, fs \in SamplingRates, m \in 1..MaxMinutes,
        d \in {-1, 0, 1}, ix \in BOOLEAN, t \in StartTimes, z \in Timezones}

NoAttributes == [data |-> "None", sampling_rate |-> "None", activity_counts_ |-> "None"]

InitAC ==
    /\ pc = "idle"
    /\ acc_sliding = <<>> /\ pad = 0 /\ wear = [c \in {} |-> <<>>]
    /\ passes = 0 /\ hist = <<>> /\ result = NoResult
    /\ sw = Idle /\ qs = Idle
    /\ \E input \in ACInputs, lib_tz \in Timezones :
          \E rect \in RectSignals(TenHzLen(input.len, input.fs)) :
              ac = [pc |-> "call", input |-> input, rect |-> rect,
                    lib_tz |-> lib_tz, self |-> NoAttributes, calls |-> 0,
                    out |-> [kind |-> "none"], prev |-> [kind |-> "none"]]

\* ActivityCounts().calculate(data, sampling_rate); the call does not assign
\* to self, and the caller may call again with the same input
CalculateCall ==
    /\ ac.pc \in {"call", "done"}
    /\ ac.calls < MaxCalls
    /\ ac' = [ac EXCEPT !.pc = "done",
                        !.calls = @ + 1,
                        !.prev = ac.out,
                        !.out = Calculate(ac.input, ac.rect, ac.lib_tz)]
    /\ UNCHANGED <<pc, acc_sliding, pad, wear, passes, hist, result, sw, qs>>

NextAC == CalculateCall

SpecAC == InitAC /\ [][NextAC]_vars

----------------------------------------------------------------------------
(* Properties of ActivityCounts.calculate *)

ACDone == ac.pc = "done"
ACReturned == ACDone /\ ac.out.kind = "return"
ACRaised == ACDone /\ ac.out.kind = "raise"

NormStage == IF ac.input.channels = 3 THEN <<Stage("norm", 0, 0)>> ELSE <<>>

TailStages ==
    <<Stage("actigraph_filter", 0, 0), Stage("downsample", 30, 10),
      Stage("abs", 0, 0), Stage("truncate", 0, 0), Stage("digitize_8bit", 0, 0),
      Stage("accumulate_minute_bins", 0, 0)>>

\* C11, as claimed: the stages run in the order norm (3-axis input only),
\* band-pass filter designed for the input sampling rate, down-sampling to
\* 30 Hz, ActiGraph filter, down-sampling to 10 Hz, rectify, truncate,
\* quantize, minute binning
C11_FilterBeforeDownsampling ==
    ACReturned =>
        ac.out.trace =
            NormStage
            \o <<Stage("aliasing_filter", ac.input.fs, ac.input.fs),
                 Stage("downsample", ac.input.fs, 30)>>
            \o TailStages

\* C11, amended: the stages run in the order norm (3-axis input only),
\* down-sampling from the input rate to 30 Hz, band-pass filter designed for
\* 30 Hz, ActiGraph filter, down-sampling to 10 Hz, rectify, truncate,
\* quantize, minute binning: the band-pass filter comes after the first
\* down-sampling and its design rate is 30 Hz whatever the input rate
C11_StageOrder ==
    ACReturned =>
        ac.out.trace =
            NormStage
            \o <<Stage("downsample", ac.input.fs, 30),
                 Stage("aliasing_filter", 30, 30)>>
            \o TailStages

\* a 3-axis input sampled at 100 Hz has gone through the pipeline
C11_Witness ==
    /\ ACReturned
    /\ ac.input.channels = 3
    /\ ac.input.fs = 100
    /\ Len(ac.out.trace) = 9

\* C12: an input whose channel count is not 1 or 3 is rejected with a
\* ValueError that carries the channel count; no pipeline stage has run, no
\* counts and no index are returned and no buffer of the caller is written;
\* inputs with 1 or 3 channels are not rejected
C12_RejectsWrongChannelCount ==
    ACDone =>
        IF ac.input.channels \in {1, 3}
        THEN ac.out.kind = "return"
        ELSE /\ ac.out.kind = "raise"
             /\ ac.out.exc = "ValueError"
             /\ ac.out.dims = ac.input.channels
             /\ ac.out.trace = <<>>
             /\ ac.out.counts = <<>> /\ ac.out.index = <<>>
             /\ ac.out.written = {}

\* a 2-column input has been rejected
C12_Witness ==
    /\ ACRaised
    /\ ac.input.channels = 2
    /\ ac.out.dims = 2

Min(a, b) == IF a < b THEN a ELSE b

\* C13: a rectified sample x below 0.068 g is counted 0, any other is counted
\* floor(min(x, 2.13) / (2.13 / 128)); the count does not decrease with x from
\* 0.068 g on, is at most 128, is 128 from 2.13 g on, and is never 1, 2 or 3
C13_TruncateQuantize ==
    ACReturned =>
        /\ Len(ac.out.quantized) = Len(ac.rect)
        /\ \A i \in DOMAIN ac.rect :
              LET x == ac.rect[i][1]
                  q == ac.out.quantized[i][1]
              IN  /\ ac.out.quantized[i][2] = ac.rect[i][2]
                  /\ x < 68000 => q = 0
                  /\ x >= 68000 => q = (Min(x, 2130000) * 128) \div 2130000
                  /\ q <= 128
                  /\ x >= 2130000 => q = 128
                  /\ q \notin 1..3
                  /\ x >= 68000 => q >= 4
        /\ \A i, j \in DOMAIN ac.rect :
              (ac.rect[i][1] >= 68000 /\ ac.rect[i][1] <= ac.rect[j][1])
                  => ac.out.quantized[i][2] > 0
                     /\ ac.out.quantized[i][1] <= ac.out.quantized[j][1]

\* one sample at the lower threshold, counted 4, followed by samples just
\* below the upper threshold, counted 127
C13_Witness ==
    /\ ACReturned
    /\ Len(ac.rect) = 2
    /\ ac.rect[1][1] = 68000 /\ ac.out.quantized[1][1] = 4
    /\ ac.rect[2][1] = 2129999 /\ ac.out.quantized[2][1] = 127

\* C14, as claimed: a 10 Hz sequence of length L gives ceil(L / n_samples)
\* counts; a length that is a multiple of n_samples is not padded and gives
\* L / n_samples counts
C14_CeilBins ==
    ACReturned =>
        Len(ac.out.counts) = (SigLen(ac.rect) + n_samples - 1) \div n_samples

\* C15, as claimed: output bin i of a time-indexed input is stamped with the
\* first input timestamp plus i times 60 s exactly, in the timezone of the
\* input index
C15_ExactTimestamps ==
    (ACReturned /\ ac.input.indexed) =>
        /\ Len(ac.out.index) = Len(ac.out.counts)
        /\ \A i \in DOMAIN ac.out.index :
              ac.out.index[i] = ac.input.start_ms + (i - 1) * 60 * 1000
        /\ ac.out.index_tz = ac.input.tz

----------------------------------------------------------------------------
(* The table predict returns *)

\* C16: the table predict builds, and returns after the three passes, has the
\* columns wear, start and end and nothing else, one row per sliding window
\* in window order (row k starts at window k's first sample and ends at its
\* last), and every wear value is 0 or 1; the passes change no start or end
\* value and no row count
C16_OneRowPerWindow ==
    Classified =>
        /\ DOMAIN wear = {"wear", "start", "end"}
        /\ \A c \in DOMAIN wear : Len(wear[c]) = Len(acc_sliding)
        /\ \A k \in DOMAIN wear["wear"] : wear["wear"][k] \in {0, 1}
        /\ \A k \in DOMAIN wear["start"] :
              /\ wear["start"][k] = (k - 1) * StepSamples
              /\ wear["end"][k] =
                    IF k = Len(acc_sliding)
                    THEN (k - 1) * StepSamples + WindowSamples - 1 - pad
                    ELSE (k - 1) * StepSamples + WindowSamples - 1
        /\ \A len \in DOMAIN hist : Len(hist[len]) = Len(acc_sliding)

\* predict has returned a table of at least five rows, the last window
\* padded, on which the passes relabeled a window
C16_Witness ==
    /\ pc = "done"
    /\ passes = NumPasses
    /\ Len(acc_sliding) >= 5
    /\ pad > 0
    /\ hist[1] # hist[Len(hist)]
    /\ DOMAIN wear = {"wear", "start", "end"}

----------------------------------------------------------------------------
(* Sliding windows (biopsykit.utils.array_handling.sliding_window), as used *)
(* by get_windows (signals/imu/imu.py) and by predict.  The series windowed *)
(* is the sample positions 0 .. N - 1, as predict windows np.arange.        *)

MaxN == 9      \* longest series
MaxW == 4      \* longest window

\* windows of window_samples samples, one every window_samples -
\* overlap_samples samples; the last window is padded with NaN
SlidingWindow(data, window_samples, overlap_samples) ==
    LET N == Len(data)
        step == window_samples - overlap_samples
        n == IF N >= window_samples
             THEN ((N - window_samples) + step - 1) \div step + 1
             ELSE 1
    IN  [k \in 1..n |->
            [j \in 1..window_samples |->
                IF (k - 1) * step + j <= N THEN data[(k - 1) * step + j] ELSE NaN]]

Arange(N) == [p \in 1..N |-> p - 1]

GetWindowsIndexLast(windows) == [k \in DOMAIN windows |-> windows[k][Len(windows[k])]]

\* sliding_window(index.values, ...)[:, 0]
GetWindowsIndex(windows) == [k \in DOMAIN windows |-> windows[k][1]]

\* the last value of a window that is not NaN
LastValid(w) == w[SetMax({j \in DOMAIN w : w[j] # NaN})]

PredictStartEndNoFix(windows) ==
    [k \in DOMAIN windows |->
        [start |-> windows[k][1], end |-> windows[k][Len(windows[k])]]]

\* index_resample[:, [0, -1]], the end of the last window moved to its last
\* value that is not NaN
PredictStartEnd(windows) ==
    [k \in DOMAIN windows |->
        [start |-> windows[k][1],
         end |-> IF k = Len(windows) /\ windows[k][Len(windows[k])] = NaN
                 THEN LastValid(windows[k])
                 ELSE windows[k][Len(windows[k])]]]

\* the index of a recording of N samples: one timestamp per sample,
\* 10 ms apart
IndexValues(N) == [p \in 1..N |-> 1000 + 10 * (p - 1)]

\* index.values[start_end]: the timestamps at the positions; a position
\* outside the index has no timestamp (NaN here)
PredictTimes(index, start_end) ==
    [k \in DOMAIN start_end |->
        [start |-> IF start_end[k].start + 1 \in DOMAIN index
                   THEN index[start_end[k].start + 1] ELSE NaN,
         end |-> IF start_end[k].end + 1 \in DOMAIN index
                 THEN index[start_end[k].end + 1] ELSE NaN]]

InitWin ==
    /\ pc = "idle"
    /\ acc_sliding = <<>> /\ pad = 0 /\ wear = [c \in {} |-> <<>>]
    /\ passes = 0 /\ hist = <<>> /\ result = NoResult
    /\ ac = Idle /\ qs = Idle
    /\ \E N \in 1..MaxN, W \in 1..MaxW :
          \E ov \in 0..(W - 1) :
              sw = [pc |-> "call", N |-> N, window_samples |-> W,
                    overlap_samples |-> ov, windows |-> <<>>, index |-> <<>>,
                    start_end |-> <<>>, times |-> <<>>]

\* get_windows on a series with an index
GetWindows ==
    /\ sw.pc = "call"
    /\ LET w == SlidingWindow(Arange(sw.N), sw.window_samples, sw.overlap_samples)
       IN  sw' = [sw EXCEPT !.pc = "windows", !.windows = w,
                            !.index = GetWindowsIndex(w)]
    /\ UNCHANGED <<pc, acc_sliding, pad, wear, passes, hist, result, ac, qs>>

\* predict's windowing of the index positions
PredictIndex ==
    /\ sw.pc = "call"
    /\ LET w == SlidingWindow(Arange(sw.N), sw.window_samples, sw.overlap_samples)
       IN  sw' = [sw EXCEPT !.pc = "predict", !.windows = w,
                            !.start_end = PredictStartEnd(w),
                            !.times = PredictTimes(IndexValues(sw.N),
                                                   PredictStartEnd(w))]
    /\ UNCHANGED <<pc, acc_sliding, pad, wear, passes, hist, result, ac, qs>>

NextWin == GetWindows \/ PredictIndex

SpecWin == InitWin /\ [][NextWin]_vars

Windowed == sw.pc \in {"windows", "predict"}
Step == sw.window_samples - sw.overlap_samples

\* C17: a series of N >= 1 samples cut with window W and step S = W -
\* overlap >= 1 gives the least number n >= 1 of windows with
\* (n - 1) * S + W >= N, that is ceil((N - W) / S) + 1 for N >= W and one for
\* N < W; window k (counted from 0) starts at sample k * S, every sample
\* position is in some window, positions of a window inside the series hold
\* the sample and positions beyond its end hold NaN; predict's end of the
\* last window is the last sample
C17_WindowingCoverage ==
    Windowed =>
        LET n == Len(sw.windows) IN
        /\ n >= 1
        /\ (n - 1) * Step + sw.window_samples >= sw.N
        /\ n > 1 => (n - 2) * Step + sw.window_samples < sw.N
        /\ sw.N < sw.window_samples => n = 1
        /\ \A k \in 1..n : Len(sw.windows[k]) = sw.window_samples
        /\ \A p \in 0..(sw.N - 1) :
              \E k \in 1..n : \E j \in 1..sw.window_samples : sw.windows[k][j] = p
        /\ \A k \in 1..n : \A j \in 1..sw.window_samples :
              sw.windows[k][j] = IF (k - 1) * Step + j <= sw.N
                                 THEN (k - 1) * Step + j - 1
                                 ELSE NaN
        /\ sw.pc = "windows" =>
              /\ Len(sw.index) = n
              /\ \A k \in 1..n : sw.index[k] = (k - 1) * Step
        /\ sw.pc = "predict" =>
              /\ Len(sw.start_end) = n
              /\ \A k \in 1..n :
                    /\ sw.start_end[k].start = (k - 1) * Step
                    /\ sw.start_end[k].end =
                          Min((k - 1) * Step + sw.window_samples, sw.N) - 1

\* get_windows on 9 samples with windows of 4 and overlap 1: three windows
\* starting at 0, 3 and 6, the last one padded with one NaN
C17_Witness ==
    /\ sw.pc = "windows"
    /\ sw.N = 9 /\ sw.window_samples = 4 /\ sw.overlap_samples = 1
    /\ sw.index = <<0, 3, 6>>
    /\ sw.windows[3] = <<6, 7, 8, NaN>>

\* predict's windowing of a series shorter than the window: one partial
\* window that ends at the last sample
C17_WitnessPartial ==
    /\ sw.pc = "predict"
    /\ sw.N = 2 /\ sw.window_samples = 4
    /\ sw.start_end = <<[start |-> 0, end |-> 1]>>

----------------------------------------------------------------------------
(* The entry points and their arguments *)

\* a run of predict and get_major_wear_block, or a run of calculate
InitPure == Init \/ InitAC
NextPure == Next \/ NextAC
SpecPure == InitPure /\ [][NextPure]_vars

\* C18: no step of predict changes the windows cut from the caller's input;
\* get_major_wear_block leaves the caller's table with the values and the
\* columns it had; calculate leaves its input and the attributes of the
\* instance as they were, writes to no buffer of the caller, and a second
\* call on the same input returns what the first returned
C18_PureEntryPoints ==
    [][/\ acc_sliding' = acc_sliding
       /\ pad' = pad
       /\ pc = "done" => wear' = wear
       /\ ac'.pc = "done" =>
             /\ ac'.input = ac.input
             /\ ac'.rect = ac.rect
             /\ ac'.self = ac.self
             /\ "caller" \notin ac'.out.written
             /\ ac.pc = "done" => ac'.out = ac.out]_vars

\* get_major_wear_block has returned the major wear block of a table that
\* holds two wear blocks, and the table still has its three columns
C18_Witness ==
    /\ pc = "returned"
    /\ result.kind = "return"
    /\ DOMAIN wear = {"wear", "start", "end"}
    /\ wear["wear"] = hist[Len(hist)]
    /\ Cardinality(WearRuns(wear["wear"])) >= 2

\* calculate has returned twice for the same 3-axis input
C18_WitnessCalculate ==
    /\ ACReturned
    /\ ac.calls = 2
    /\ ac.input.channels = 3
    /\ ac.out = ac.prev
    /\ ac.self = NoAttributes

----------------------------------------------------------------------------
(* Questionnaire helpers crop_scale and bin_scale (questionnaires/utils.py) *)
(*                                                                         *)
(* A dataframe is a function from column names to columns of MaxRows or    *)
(* fewer values.  A call works on a heap of dataframes: "caller" is the    *)
(* object the caller passed, "copy" the one data.copy() makes, "masked"    *)
(* the one DataFrame.mask returns; name is the object the local variable   *)
(* data is bound to.                                                       *)

MaxRows == 2       \* most rows of a dataframe

Columns == <<"a", "b">>
Scores == {1, 5, 7}
ScoreRanges == {<<2, 6>>, <<1, 7>>}
Bins == {<<0, 2, 6>>, <<0, 6>>}
\* cols as a name, as a list of names, or None (the empty list here)
ColsArgs == {<<"a">>, <<"b">>, <<"a", "b">>, <<"b", "a">>, <<>>}
\* what data.loc[:, cols] = c does with a series c and several columns
\* depends on the pandas build: c goes into every listed column ("tile"), or
\* the values of c go along the columns when there are as many rows as
\* columns and the assignment raises otherwise ("strict")
SetitemModes == {"tile", "strict"}

Frames ==
    UNION {[{Columns[i] : i \in DOMAIN Columns} -> [1..n -> Scores]] : n \in 1..MaxRows}

NoFrame == [c \in {} |-> <<>>]
None == [none |-> TRUE, value |-> NoFrame]
Returned(frame) == [none |-> FALSE, value |-> frame]

\* data < x and data > x: dataframes of booleans, False where data is NaN
FrameLT(frame, x) ==
    [c \in DOMAIN frame |->
        [r \in DOMAIN frame[c] |-> frame[c][r] # NaN /\ frame[c][r] < x]]
FrameGT(frame, x) ==
    [c \in DOMAIN frame |->
        [r \in DOMAIN frame[c] |-> frame[c][r] # NaN /\ frame[c][r] > x]]
FrameOr(f, g) ==
    [c \in DOMAIN f |-> [r \in DOMAIN f[c] |-> f[c][r] \/ g[c][r]]]

\* DataFrame.mask(cond, other): a new dataframe
Mask(frame, cond, other) ==
    [c \in DOMAIN frame |->
        [r \in DOMAIN frame[c] |-> IF cond[c][r] THEN other ELSE frame[c][r]]]

\* lines 407-420
CropScale(data, score_range, inplace, set_nan) ==
    LET heap == [caller |-> data, copy |-> data]
        name == IF inplace THEN "caller" ELSE "copy"
        masked ==
            IF set_nan
            THEN Mask(heap[name],
                      FrameOr(FrameLT(heap[name], score_range[1]),
                              FrameGT(heap[name], score_range[2])), NaN)
            ELSE LET low == Mask(heap[name], FrameLT(heap[name], score_range[1]),
                                 score_range[1])
                 IN  Mask(low, FrameGT(low, score_range[2]), score_range[2])
    IN  [caller |-> heap.caller,
         ret |-> IF inplace THEN None ELSE Returned(masked),
         exc |-> ""]

\* pd.cut(x, bins, labels=False): the number of the bin (bins[i], bins[i + 1]]
\* that holds x, counted from 0, NaN when no bin does
Cut(x, bins) ==
    IF x # NaN /\ \E i \in 1..(Len(bins) - 1) : bins[i] < x /\ x <= bins[i + 1]
    THEN (CHOOSE i \in 1..(Len(bins) - 1) : bins[i] < x /\ x <= bins[i + 1]) - 1
    ELSE NaN

\* lines 641-650, for cols given as names
GetCols(data, cols) == IF cols = <<>> THEN Columns ELSE cols

\* lines 653-673; Series.max() skips NaN and is NaN for a column of NaN
GetBins(data, bins, col, last_max) ==
    IF last_max
    THEN LET vals == {data[col][r] : r \in DOMAIN data[col]} \ {NaN}
             col_max == IF vals = {} THEN NaN ELSE SetMax(vals)
         IN  IF col_max # NaN /\ col_max > SetMax({bins[i] : i \in DOMAIN bins})
             THEN Append(bins, col_max + 1)
             ELSE bins
    ELSE bins

\* data.loc[:, cols] = c on the dataframe data
Setitem(data, cols, c, mode) ==
    IF Len(cols) = 1 \/ mode = "tile"
    THEN [raised |-> FALSE,
          data |-> [k \in DOMAIN data |->
                      IF \E j \in DOMAIN cols : cols[j] = k THEN c ELSE data[k]]]
    ELSE IF Len(c) = Len(cols)
    THEN [raised |-> FALSE,
          data |-> [k \in DOMAIN data |->
                      IF \E j \in DOMAIN cols : cols[j] = k
                      THEN [r \in DOMAIN data[k] |->
                              c[CHOOSE j \in DOMAIN cols : cols[j] = k]]
                      ELSE data[k]]]
    ELSE [raised |-> TRUE, data |-> data]

RECURSIVE BinLoop(_, _, _, _, _, _)
\* lines 484-491: for col in cols, from the i-th column on
BinLoop(data, bins, cols, i, last_max, mode) ==
    IF i > Len(cols) THEN [raised |-> FALSE, data |-> data]
    ELSE LET bins_i == GetBins(data, bins, cols[i], last_max)
             c == [r \in DOMAIN data[cols[i]] |-> Cut(data[cols[i]][r], bins_i)]
             set == Setitem(data, cols, c, mode)
         IN  IF set.raised THEN set
             ELSE BinLoop(set.data, bins_i, cols, i + 1, last_max, mode)

\* lines 471-495, for a dataframe
BinScale(data, bins, cols, last_max, inplace, mode) ==
    LET loop == BinLoop(data, bins, GetCols(data, cols), 1, last_max, mode)
    IN  IF loop.raised
        THEN [caller |-> IF inplace THEN loop.data ELSE data,
              ret |-> None, exc |-> "ValueError"]
        ELSE [caller |-> IF inplace THEN loop.data ELSE data,
              ret |-> IF inplace THEN None ELSE Returned(loop.data),
              exc |-> ""]

NoOut == [caller |-> NoFrame, ret |-> None, exc |-> ""]

InitQ ==
    /\ pc = "idle"
    /\ acc_sliding = <<>> /\ pad = 0 /\ wear = [c \in {} |-> <<>>]
    /\ passes = 0 /\ hist = <<>> /\ result = NoResult
    /\ ac = Idle /\ sw = Idle
    /\ \E data \in Frames, score_range \in ScoreRanges, bins \in Bins,
          cols \in ColsArgs, inplace \in BOOLEAN, flag \in BOOLEAN,
          mode \in SetitemModes :
          qs = [pc |-> "call", data |-> data, score_range |-> score_range,
                bins |-> bins, cols |-> cols, inplace |-> inplace,
                flag |-> flag, mode |-> mode, out |-> NoOut]

\* crop_scale(data, score_range, inplace, set_nan=flag)
CropScaleCall ==
    /\ qs.pc = "call"
    /\ qs' = [qs EXCEPT !.pc = "cropped",
                        !.out = CropScale(qs.data, qs.score_range, qs.inplace, qs.flag)]
    /\ UNCHANGED <<pc, acc_sliding, pad, wear, passes, hist, result, ac, sw>>

\* bin_scale(data, bins, cols, last_max=flag, inplace)
BinScaleCall ==
    /\ qs.pc = "call"
    /\ qs' = [qs EXCEPT !.pc = "binned",
                        !.out = BinScale(qs.data, qs.bins, qs.cols, qs.flag,
                                         qs.inplace, qs.mode)]
    /\ UNCHANGED <<pc, acc_sliding, pad, wear, passes, hist, result, ac, sw>>

NextQ == CropScaleCall \/ BinScaleCall

SpecQ == InitQ /\ [][NextQ]_vars

\* the cropped value of a score
Cropped(x, score_range, set_nan) ==
    IF x = NaN THEN NaN
    ELSE IF x < score_range[1] THEN (IF set_nan THEN NaN ELSE score_range[1])
    ELSE IF x > score_range[2] THEN (IF set_nan THEN NaN ELSE score_range[2])
    ELSE x

CroppedFrame(frame, score_range, set_nan) ==
    [c \in DOMAIN frame |->
        [r \in DOMAIN frame[c] |-> Cropped(frame[c][r], score_range, set_nan)]]

\* C19, as claimed: with inplace=True crop_scale returns None and the
\* caller's dataframe holds the cropped values (every value within
\* score_range, or NaN when set_nan); with inplace=False the caller's
\* dataframe is as it was and the cropped copy is returned
C19_CropInplace ==
    qs.pc = "cropped" =>
        IF qs.inplace
        THEN /\ qs.out.ret = None
             /\ qs.out.caller = CroppedFrame(qs.data, qs.score_range, qs.flag)
        ELSE /\ qs.out.caller = qs.data
             /\ qs.out.ret = Returned(CroppedFrame(qs.data, qs.score_range, qs.flag))

\* the binning of column col of the input with the bins of the call
BinnedColumn(frame, bins, col, last_max) ==
    [r \in DOMAIN frame[col] |->
        Cut(frame[col][r], GetBins(frame, bins, col, last_max))]

BinnedFrame(frame, bins, cols, last_max) ==
    [c \in DOMAIN frame |->
        IF \E j \in DOMAIN cols : cols[j] = c
        THEN BinnedColumn(frame, bins, c, last_max)
        ELSE frame[c]]

\* C20, as claimed: bin_scale on a dataframe puts into each column listed in
\* cols the binning of that column's input values, leaves the other columns
\* as they were, and returns None when inplace is True (the binned data is
\* then the caller's dataframe) and the binned data otherwise
C20_BinOwnColumn ==
    qs.pc = "binned" =>
        LET binned == BinnedFrame(qs.data, qs.bins, GetCols(qs.data, qs.cols), qs.flag)
        IN  /\ qs.out.exc = ""
            /\ IF qs.inplace
               THEN qs.out.ret = None /\ qs.out.caller = binned
               ELSE qs.out.ret = Returned(binned) /\ qs.out.caller = qs.data

----------------------------------------------------------------------------
(* The passes as an iteration *)

InteriorWearRuns(col) == {run \in WearRuns(col) : Interior(col, run)}

\* a further pass would change no label
Stable == RescoreWearDetection(wear)["wear"] = wear["wear"]

\* C21, as claimed: the labeling predict returns after its three passes is a
\* fixed point of the pass
C21_FixedPointAfterThree ==
    pc = "done" => Stable

\* C21, amended: the labeling predict returns after its three passes is a
\* fixed point of the pass when the classification has at most three wear
\* blocks that are neither the first nor the last block
C21_FixedPointUpToThreeBlocks ==
    (pc = "done" /\ Cardinality(InteriorWearRuns(hist[1])) <= 3)
        => Stable

\* three interior wear blocks, one removed by each of the three passes, and
\* the result is stable
C21_Witness ==
    /\ pc = "done"
    /\ Cardinality(InteriorWearRuns(hist[1])) = 3
    /\ \A i \in 1..3 : hist[i] # hist[i + 1]
    /\ Stable

\* four interior wear blocks, one removed by each pass: after three passes
\* the fourth is still there and a further pass would remove it
C21_NotStable ==
    /\ pc = "done"
    /\ Cardinality(InteriorWearRuns(hist[1])) = 4
    /\ ~Stable

\* C22: in the labeling after a pass every block of the labeling before the
\* pass has one label; every maximal run of wear windows of any later
\* labeling, the one predict returns included, is a maximal run of wear
\* windows of the classification, with the same first and last window; the
\* number of blocks does not grow from one pass to the next
C22_WholeBlocksOnly ==
    Classified =>
        /\ \A i \in 1..(Len(hist) - 1) :
              /\ \A run \in Runs(hist[i]) :
                    \A k \in run[1]..run[2] : hist[i + 1][k] = hist[i + 1][run[1]]
              /\ Cardinality(Runs(hist[i + 1])) <= Cardinality(Runs(hist[i]))
        /\ \A i \in DOMAIN hist : WearRuns(hist[i]) \subseteq WearRuns(hist[1])
        /\ WearRuns(wear["wear"]) \subseteq WearRuns(hist[1])

\* predict has returned a labeling in which one wear block of the
\* classification has gone and another interior one is where it was
C22_Witness ==
    /\ pc = "done"
    /\ InteriorWearRuns(wear["wear"]) # {}
    /\ InteriorWearRuns(wear["wear"]) # InteriorWearRuns(hist[1])
    /\ Cardinality(Runs(wear["wear"])) + 2 <= Cardinality(Runs(hist[1]))

\* C23: every run of at least 24 consecutive wear windows (6 h) of the
\* classification is entirely wear after every pass and in the labeling
\* predict returns
C23_SixHourBlocksKept ==
    Classified =>
        \A run \in WearRuns(hist[1]) :
            RunLen(run) >= 24 =>
                \A i \in DOMAIN hist : \A k \in run[1]..run[2] :
                    hist[i][k] = 1 /\ wear["wear"][k] = 1

\* an interior wear block of exactly 24 windows between non-wear blocks of
\* 77 windows each (ratio 0.16) is wear in the labeling predict returns
C23_Witness ==
    /\ pc = "done"
    /\ \E run \in InteriorWearRuns(hist[1]) :
          /\ RunLen(run) = 24
          /\ PrevLen(hist[1], run) = 77 /\ NextLen(hist[1], run) = 77
          /\ \A k \in run[1]..run[2] : wear["wear"][k] = 1

----------------------------------------------------------------------------
(* The pass applied again and again to a labeling *)

MaxLabels == 8     \* longest labeling of the labelings of every length
MaxIter == 5       \* passes applied

RECURSIVE LabelsFromBlocks(_, _)
LabelsFromBlocks(first, lens) ==
    IF lens = <<>> THEN <<>>
    ELSE Repeat(first, Head(lens)) \o LabelsFromBlocks(1 - first, Tail(lens))

\* every labeling of up to MaxLabels windows, the cascades, and a wear block
\* at each limit of the two rules
Labelings ==
    UNION {[1..n -> {0, 1}] : n \in 1..MaxLabels}
    \cup {LabelsFromBlocks(0, lens) : lens \in Cascades}
    \cup {LabelsFromBlocks(0, <<p, d, 1>>) : p \in {14, 15, 40, 76}, d \in {11, 12, 23, 24}}

\* a table with the wear column labels
TableOf(labels) ==
    [c \in {"wear", "start", "end"} |->
        IF c = "wear" THEN labels
        ELSE IF c = "start" THEN StartColumn(Len(labels))
        ELSE EndColumn(Len(labels), 0)]

InitIter ==
    /\ pc = "iterate"
    /\ ac = Idle /\ sw = Idle /\ qs = Idle
    /\ acc_sliding = <<>> /\ pad = 0
    /\ \E labels \in Labelings :
          /\ wear = TableOf(labels)
          /\ hist = <<labels>>
    /\ passes = 0
    /\ result = NoResult

\* wear = self._rescore_wear_detection(wear), once more
Pass ==
    /\ pc = "iterate"
    /\ passes < MaxIter
    /\ wear' = RescoreWearDetection(wear)
    /\ passes' = passes + 1
    /\ hist' = Append(hist, wear'["wear"])
    /\ UNCHANGED <<pc, acc_sliding, pad, result, ac, sw, qs>>

NextIter == Pass

SpecIter == InitIter /\ [][NextIter]_vars

NumWear(col) == Cardinality({k \in DOMAIN col : col[k] = 1})

\* the values dur_prev + dur_post takes in a pass over the labeling col, in
\* quarter hours
Denominators(col) ==
    LET blocks == GroupBy(WithColumn(TableOf(col), "block", BlockColumn(col)))
    IN  {Dur(blocks[i]) + Dur(blocks[i + 2]) : i \in 1..(Len(blocks) - 2)}

\* C24: a pass that changes a label leaves fewer wear windows and fewer wear
\* blocks than it found; after as many passes as the labeling has interior
\* wear blocks, a pass changes nothing; the neighbours of an interior block
\* together have at least two windows (0.5 h), the denominator of the ratio
C24_Terminates ==
    pc = "iterate" =>
        /\ \A i \in 1..(Len(hist) - 1) :
              /\ hist[i + 1] # hist[i] =>
                    /\ NumWear(hist[i + 1]) < NumWear(hist[i])
                    /\ Cardinality(WearRuns(hist[i + 1]))
                          < Cardinality(WearRuns(hist[i]))
              /\ i > Cardinality(InteriorWearRuns(hist[1])) => hist[i + 1] = hist[i]
              /\ hist[i + 1] = hist[i] =>
                    \A j \in i..(Len(hist) - 1) : hist[j + 1] = hist[i]
        /\ \A i \in DOMAIN hist : \A den \in Denominators(hist[i]) : den >= 2

\* four interior wear blocks, one removed by each of four passes, and the
\* fifth pass changes nothing
C24_Witness ==
    /\ pc = "iterate"
    /\ passes = 5
    /\ Cardinality(InteriorWearRuns(hist[1])) = 4
    /\ \A i \in 1..4 : hist[i] # hist[i + 1]
    /\ hist[5] = hist[6]

----------------------------------------------------------------------------
(* The start and end of predict's rows *)

\* the timestamp of the sample at position p, counted from 0
StampOf(p) == 1000 + 10 * p

\* C25: row k (counted from 0) of a recording of N samples has start = the
\* timestamp of sample k * S and end = the timestamp of sample
\* min(k * S + W - 1, N - 1); both are timestamps of samples of the recording
\* with start <= end, every row but the last spans W samples, and the last
\* row ends at the last sample of the recording
C25_StartEndOfRealSamples ==
    sw.pc = "predict" =>
        LET n == Len(sw.times)
            stamps == {StampOf(p) : p \in 0..(sw.N - 1)}
        IN  /\ n = Len(sw.windows)
            /\ \A k \in 1..n :
                  /\ sw.times[k].start = StampOf((k - 1) * Step)
                  /\ sw.times[k].end =
                        StampOf(Min((k - 1) * Step + sw.window_samples - 1, sw.N - 1))
                  /\ sw.times[k].start \in stamps
                  /\ sw.times[k].end \in stamps
                  /\ sw.times[k].start <= sw.times[k].end
                  /\ k < n => sw.times[k].end - sw.times[k].start
                                 = 10 * (sw.window_samples - 1)
            /\ sw.times[n].end = StampOf(sw.N - 1)

\* 8 samples cut with windows of 4 and overlap 1: three rows, the last one
\* shortened by two padded positions, ending at sample 7
C25_Witness ==
    /\ sw.pc = "predict"
    /\ sw.N = 8 /\ sw.window_samples = 4 /\ sw.overlap_samples = 1
    /\ sw.windows[3] = <<6, 7, NaN, NaN>>
    /\ sw.times = <<[start |-> 1000, end |-> 1030], [start |-> 1030, end |-> 1060],
                    [start |-> 1060, end |-> 1070]>>

====
